---- MODULE Spec2Model ----
(***************************************************************************)
(* A model of src/converter.py: the image-reference rewriter               *)
(* (correct_image_paths, _find_local_image), the batch orchestrator        *)
(* (process_markdown_files, _process_single_markdown_file,                 *)
(* convert_markdown_to_word) and the command line (parse_arguments).       *)
(*                                                                         *)
(* Text is a sequence of one-character strings, so that the regular        *)
(* expression, str.lower(), Path.name and Path.suffix are computed         *)
(* character by character as the Python code computes them.  Paths follow  *)
(* the POSIX flavour of pathlib.                                           *)
(***************************************************************************)
EXTENDS Integers, Sequences, FiniteSets, TLC

VARIABLES
    \* ---- correct_image_paths ----
    markdown_content,   \* the text handed to correct_image_paths
    listing,            \* markdown_file_path.parent.iterdir(), in listing order
    parent,             \* str(markdown_file_path.parent)
    subs,               \* the calls re.sub made to replace_path, in order
    out,                \* correct_image_paths(markdown_content, ...)
    out2,               \* correct_image_paths(out, ...)
    rpc,                \* "idle" | "input" | "rewritten" | "again"
    \* ---- process_markdown_files ----
    input_kind,         \* "file" | "dir" | "neither" (input_path.is_file / is_dir)
    input_name,         \* input_path.name
    case_sensitive,     \* does Path.glob compare names case-sensitively (POSIX: yes)
    env,                \* per directory entry: what the file system and pandoc will do
    markdown_files,     \* list(input_path.glob('*.md')) as indices into env
    idx,                \* position of the for loop in markdown_files
    bpc,                \* position inside process_markdown_files / the per-file code
    exc,                \* the exception in flight, "none" when there is none
    started,            \* entries _process_single_markdown_file was called for
    handed,             \* entries whose rewritten text reached convert_markdown_to_word
    temp_md,            \* entries whose temporary Markdown file exists
    temp_dir,           \* entries whose temporary media directory exists
    staged,             \* per entry: the text written to the temporary Markdown file
    docx,               \* entries whose output document pandoc wrote
    reports,            \* the status lines printed, in order
    returned,           \* entries for which _process_single_markdown_file returned or raised
    escaped,            \* an exception left process_markdown_files
    \* ---- parse_arguments ----
    argv,               \* the positional command-line arguments
    args,               \* the namespace parse_args returned
    usage_error,        \* parser.error was called
    apc                 \* "idle" | "start" | "parsed" | "done"

rvars == <<markdown_content, listing, parent, subs, out, out2, rpc>>
bvars == <<input_kind, input_name, case_sensitive, env, markdown_files, idx, bpc, exc,
           started, handed, temp_md, temp_dir, staged, docx, reports, returned, escaped>>
avars == <<argv, args, usage_error, apc>>
vars == <<rvars, bvars, avars>>

----------------------------------------------------------------------------
\* Bounds of the model
MaxPieces == 3       \* pieces concatenated into an input text
MaxEntries == 2      \* entries of the directory searched for images
MaxFiles == 3        \* entries of the input directory in directory mode

----------------------------------------------------------------------------
\* Characters and strings

UpperToLower ==
    "A" :> "a" @@ "B" :> "b" @@ "C" :> "c" @@ "D" :> "d" @@ "E" :> "e" @@ "F" :> "f" @@
    "G" :> "g" @@ "H" :> "h" @@ "I" :> "i" @@ "J" :> "j" @@ "K" :> "k" @@ "L" :> "l" @@
    "M" :> "m" @@ "N" :> "n" @@ "O" :> "o" @@ "P" :> "p" @@ "Q" :> "q" @@ "R" :> "r" @@
    "S" :> "s" @@ "T" :> "t" @@ "U" :> "u" @@ "V" :> "v" @@ "W" :> "w" @@ "X" :> "x" @@
    "Y" :> "y" @@ "Z" :> "z"

\* str.lower()
lower(s) == [k \in 1..Len(s) |-> IF s[k] \in DOMAIN UpperToLower THEN UpperToLower[s[k]] ELSE s[k]]

\* does p occur in t at position i
StartsAt(t, i, p) == /\ i >= 1
                     /\ i + Len(p) - 1 <= Len(t)
                     /\ \A k \in 1..Len(p) : t[i + k - 1] = p[k]

\* is p a substring of t
Contains(t, p) == \E i \in 1..(Len(t) + 1) : StartsAt(t, i, p)

\* the regular expression's '.', which matches anything but a line feed
NoNewline(t, from, to) == \A k \in from..to : t[k] # "\n"

RECURSIVE Flatten(_)
Flatten(ss) == IF ss = <<>> THEN <<>> ELSE Head(ss) \o Flatten(Tail(ss))

Min(S) == CHOOSE x \in S : \A y \in S : x <= y
Max(S) == CHOOSE x \in S : \A y \in S : x >= y

----------------------------------------------------------------------------
\* pathlib (POSIX flavour)

RECURSIVE SplitSlash(_, _, _)
SplitSlash(s, cur, acc) ==
    IF s = <<>> THEN Append(acc, cur)
    ELSE IF Head(s) = "/" THEN SplitSlash(Tail(s), <<>>, Append(acc, cur))
    ELSE SplitSlash(Tail(s), Append(cur, Head(s)), acc)

\* Path(s).parts for a relative path: empty and "." components are dropped
PathParts(s) == SelectSeq(SplitSlash(s, <<>>, <<>>), LAMBDA c : c # <<>> /\ c # <<".">>)

\* Path(s).name
PathName(s) == LET ps == PathParts(s) IN IF ps = <<>> THEN <<>> ELSE ps[Len(ps)]

\* str(Path(dir) / name)
PathJoin(dir, name) == IF dir = <<".">> THEN name
                       ELSE IF dir[Len(dir)] = "/" THEN dir \o name
                       ELSE dir \o <<"/">> \o name

\* Path(name).suffix: from the last dot, unless that dot is first or last
PathSuffix(name) ==
    LET dots == {k \in 1..Len(name) : name[k] = "."} IN
    IF dots = {} THEN <<>>
    ELSE LET i == Max(dots) IN
         IF 1 < i /\ i < Len(name) THEN SubSeq(name, i, Len(name)) ELSE <<>>

----------------------------------------------------------------------------
\* correct_image_paths

Http == <<"h", "t", "t", "p", ":", "/", "/">>
Https == <<"h", "t", "t", "p", "s", ":", "/", "/">>
PlaceholderPrefix == <<"[", "C", "L", "I", "C", "K", " ", "T", "O", " ", "V", "I", "E", "W", " ",
                       "O", "N", "L", "I", "N", "E", " ", "I", "M", "A", "G", "E", ":", " ", "(">>

\* length of what 'https?://' matches at position i, 0 when it does not match
SchemeLen(t, i) == IF StartsAt(t, i, Https) THEN Len(Https)
                   ELSE IF StartsAt(t, i, Http) THEN Len(Http)
                   ELSE 0

\* the positions of a ')' that can end the second group opened at u
UrlEnds(t, u) == {e \in (u + SchemeLen(t, u))..Len(t) : t[e] = ")" /\ NoNewline(t, u, e - 1)}

\* the positions k of a ']' at which the first group, opened at i + 2, can
\* end with the rest of the pattern matching
AltEnds(t, i) == {k \in (i + 2)..(Len(t) - 1) :
                    /\ t[k] = "]"
                    /\ t[k + 1] = "("
                    /\ NoNewline(t, i + 2, k - 1)
                    /\ SchemeLen(t, k + 2) > 0
                    /\ UrlEnds(t, k + 2) # {}}

NoMatch == [ok |-> FALSE]

\* the match of r'!\[(.*?)\]\((https?://.*?)\)' anchored at position i:
\* both groups are lazy, so each ends at the first position that lets the
\* rest of the pattern match
pattern_markdown_image(t, i) ==
    IF /\ i + 1 <= Len(t)
       /\ t[i] = "!"
       /\ t[i + 1] = "["
       /\ AltEnds(t, i) # {}
    THEN LET k == Min(AltEnds(t, i))
             e == Min(UrlEnds(t, k + 2))
         IN  [ok |-> TRUE, start |-> i, end |-> e,
              alt_text |-> SubSeq(t, i + 2, k - 1),
              old_path |-> SubSeq(t, k + 2, e - 1)]
    ELSE NoMatch

\* re.sub called with count=1: only the leftmost match is replaced
re_sub_first_only(t, i) ==
    LET found == {j \in i..Len(t) : pattern_markdown_image(t, j).ok} IN
    IF found = {} THEN <<>>
    ELSE <<pattern_markdown_image(t, Min(found))>>

\* the non-overlapping matches re.sub finds scanning t from position i: the
\* leftmost position at or after i where the pattern matches, then on from
\* the end of that match
RECURSIVE re_sub(_, _)
re_sub(t, i) ==
    LET found == {j \in i..Len(t) : pattern_markdown_image(t, j).ok} IN
    IF found = {} THEN <<>>
    ELSE LET m == pattern_markdown_image(t, Min(found)) IN
         <<m>> \o re_sub(t, m.end + 1)

NotFound == [found |-> FALSE, path |-> <<>>]

\* the entry is looked up but the path is built from the URL's spelling
find_local_image_url_spelling(file_name, dir_listing, dir) ==
    LET hits == {n \in 1..Len(dir_listing) : lower(dir_listing[n]) = lower(file_name)} IN
    IF hits = {} THEN NotFound
    ELSE [found |-> TRUE, path |-> PathJoin(dir, file_name)]

\* the first entry of the directory whose lower-cased name is the lower-cased file name
find_local_image(file_name, dir_listing, dir) ==
    LET hits == {n \in 1..Len(dir_listing) : lower(dir_listing[n]) = lower(file_name)} IN
    IF hits = {} THEN NotFound
    ELSE [found |-> TRUE, path |-> PathJoin(dir, dir_listing[Min(hits)])]

\* the placeholder keeps the '!' of the image syntax
replace_path_keeps_bang(alt_text, old_path, dir_listing, dir) ==
    LET file_name == PathName(old_path)
        local_file == find_local_image(file_name, dir_listing, dir)
    IN  IF local_file.found
        THEN [local |-> TRUE,
              repl |-> <<"!", "[">> \o alt_text \o <<"]", "(">> \o local_file.path \o <<")">>]
        ELSE [local |-> FALSE,
              repl |-> <<"!">> \o PlaceholderPrefix \o alt_text \o <<")", "]", "(">> \o old_path \o <<")">>]

\* lines 61-66: the replacement for one match
replace_path(alt_text, old_path, dir_listing, dir) ==
    LET file_name == PathName(old_path)
        local_file == find_local_image(file_name, dir_listing, dir)
    IN  IF local_file.found
        THEN [local |-> TRUE,
              repl |-> <<"!", "[">> \o alt_text \o <<"]", "(">> \o local_file.path \o <<")">>]
        ELSE [local |-> FALSE,
              repl |-> PlaceholderPrefix \o alt_text \o <<")", "]", "(">> \o old_path \o <<")">>]

\* the calls of replace_path made for text t, with what each returned
Substitutions(t, dir_listing, dir) ==
    LET ms == re_sub(t, 1) IN
    [n \in 1..Len(ms) |->
        LET r == replace_path(ms[n].alt_text, ms[n].old_path, dir_listing, dir) IN
        [start |-> ms[n].start, end |-> ms[n].end, alt_text |-> ms[n].alt_text,
         old_path |-> ms[n].old_path, local |-> r.local, repl |-> r.repl]]

\* the text re.sub returns: the unmatched stretches of t with each match replaced
Assemble(t, ss) ==
    Flatten([n \in 1..(2 * Len(ss) + 1) |->
        IF n % 2 = 0 THEN ss[n \div 2].repl
        ELSE LET j == (n - 1) \div 2
                 from == IF j = 0 THEN 1 ELSE ss[j].end + 1
                 to == IF j = Len(ss) THEN Len(t) ELSE ss[j + 1].start - 1
             IN  SubSeq(t, from, to)])

correct_image_paths(t, dir_listing, dir) == Assemble(t, Substitutions(t, dir_listing, dir))

----------------------------------------------------------------------------
\* Inputs of the rewriter: texts made of up to MaxPieces pieces, a directory
\* listing of up to MaxEntries distinct names, and the directory's path

RemoteX == <<"!", "[", "a", "]", "(", "h", "t", "t", "p", ":", "/", "/", "h", "/", "x", ".", "p", ")">>
RemoteY == <<"!", "[", "]", "(", "h", "t", "t", "p", "s", ":", "/", "/", "h", "/", "y", ".", "p", ")">>
LocalRef == <<"!", "[", "b", "]", "(", "l", ".", "p", ")">>
FtpRef == <<"!", "[", "c", "]", "(", "f", "t", "p", ":", "/", "/", "l", ".", "p", ")">>

Pieces == {RemoteX, RemoteY, LocalRef, FtpRef, <<"!">>, <<"!", "[">>, <<"\n">>, <<" ">>}

InputTexts == {Flatten(ps) : ps \in UNION {[1..n -> Pieces] : n \in 0..MaxPieces}}

EntryNames == {<<"X", ".", "P">>, <<"x", ".", "p">>, <<"t", ".", "m", "d">>}

Listings == {l \in UNION {[1..n -> EntryNames] : n \in 0..MaxEntries} :
                \A a, b \in 1..Len(l) : a # b => l[a] # l[b]}

Parents == {<<"/", "d">>, <<".">>}

RIdle == /\ markdown_content = <<>>
         /\ listing = <<>>
         /\ parent = <<".">>
         /\ subs = <<>>
         /\ out = <<>>
         /\ out2 = <<>>
         /\ rpc = "idle"

AIdle == /\ argv = <<>>
         /\ args = [input |-> "", output |-> ""]
         /\ usage_error = FALSE
         /\ apc = "idle"

BIdle == /\ input_kind = "neither"
         /\ input_name = <<>>
         /\ case_sensitive = TRUE
         /\ env = <<>>
         /\ markdown_files = <<>>
         /\ idx = 0
         /\ bpc = "idle"
         /\ exc = "none"
         /\ started = {}
         /\ handed = {}
         /\ temp_md = {}
         /\ temp_dir = {}
         /\ staged = <<>>
         /\ docx = {}
         /\ reports = <<>>
         /\ returned = {}
         /\ escaped = FALSE

Init == /\ markdown_content \in InputTexts
        /\ listing \in Listings
        /\ parent \in Parents
        /\ subs = <<>>
        /\ out = <<>>
        /\ out2 = <<>>
        /\ rpc = "input"
        /\ BIdle
        /\ AIdle

\* correct_image_paths(markdown_content, markdown_file_path)
Rewrite ==
    /\ rpc = "input"
    /\ subs' = Substitutions(markdown_content, listing, parent)
    /\ out' = correct_image_paths(markdown_content, listing, parent)
    /\ rpc' = "rewritten"
    /\ UNCHANGED <<markdown_content, listing, parent, out2, bvars, avars>>

\* correct_image_paths applied to its own output, same directory
RewriteAgain ==
    /\ rpc = "rewritten"
    /\ out2' = correct_image_paths(out, listing, parent)
    /\ rpc' = "again"
    /\ UNCHANGED <<markdown_content, listing, parent, subs, out, bvars, avars>>

Next == Rewrite \/ RewriteAgain

Spec == Init /\ [][Next]_vars

----------------------------------------------------------------------------
\* Properties of correct_image_paths

Rewritten == rpc \in {"rewritten", "again"}

\* what follows the last '/' of a URL
FinalSegment(url) ==
    LET slashes == {k \in 1..Len(url) : url[k] = "/"} IN
    IF slashes = {} THEN url ELSE SubSeq(url, Max(slashes) + 1, Len(url))

\* the entries of the searched directory whose name is seg, letter case aside
EntriesNamed(seg) == {f \in 1..Len(listing) : lower(listing[f]) = lower(seg)}

\* how far the first n substitutions move the text that follows them
RECURSIVE Shift(_, _)
Shift(ss, n) == IF n = 0 THEN 0
                ELSE Shift(ss, n - 1) + Len(ss[n].repl) - (ss[n].end - ss[n].start + 1)

\* where the n-th substitution begins in the output
OutPos(n) == subs[n].start + Shift(subs, n - 1)

\* the n-th substituted stretch of the input reads ![alt](url)
ReadsAsReference(n) ==
    SubSeq(markdown_content, subs[n].start, subs[n].end) =
        <<"!", "[">> \o subs[n].alt_text \o <<"]", "(">> \o subs[n].old_path \o <<")">>

LocalEmbed(alt, path) == <<"!", "[">> \o alt \o <<"]", "(">> \o path \o <<")">>

PlaceholderLink(alt, url) == PlaceholderPrefix \o alt \o <<")", "]", "(">> \o url \o <<")">>

\* C1: a matched remote reference ![alt](url) whose final URL segment names,
\* letter case aside, an entry of the directory is replaced by
\* ![alt](<directory>/<entry as spelled on disk>), alt unchanged.
C1_LocalMatchUsesDiskSpelling ==
    Rewritten =>
        \A n \in 1..Len(subs) :
            EntriesNamed(FinalSegment(subs[n].old_path)) # {} =>
                /\ ReadsAsReference(n)
                /\ \E f \in EntriesNamed(FinalSegment(subs[n].old_path)) :
                      /\ subs[n].repl = LocalEmbed(subs[n].alt_text, PathJoin(parent, listing[f]))
                      /\ StartsAt(out, OutPos(n), subs[n].repl)

\* C1 witness: a reference was replaced by the path of an entry whose
\* spelling on disk differs from the spelling in the URL
C1_Witness ==
    /\ rpc = "rewritten"
    /\ \E n \in 1..Len(subs) : \E f \in EntriesNamed(FinalSegment(subs[n].old_path)) :
          /\ listing[f] # FinalSegment(subs[n].old_path)
          /\ subs[n].repl = LocalEmbed(subs[n].alt_text, PathJoin(parent, listing[f]))
          /\ Contains(out, subs[n].repl)

\* C2: a matched remote reference ![alt](url) whose file name matches no
\* entry of the directory is replaced by exactly
\* [CLICK TO VIEW ONLINE IMAGE: (alt)](url), without the leading '!'.
C2_NoMatchGivesPlaceholderLink ==
    Rewritten =>
        \A n \in 1..Len(subs) :
            EntriesNamed(FinalSegment(subs[n].old_path)) = {} =>
                /\ ReadsAsReference(n)
                /\ subs[n].repl = PlaceholderLink(subs[n].alt_text, subs[n].old_path)
                /\ StartsAt(out, OutPos(n), subs[n].repl)
                /\ out[OutPos(n)] = "["

\* C2 witness: an unmatched reference with an empty alt text became a
\* placeholder link although the directory is not empty
C2_Witness ==
    /\ rpc = "rewritten"
    /\ listing # <<>>
    /\ \E n \in 1..Len(subs) :
          /\ subs[n].alt_text = <<>>
          /\ EntriesNamed(FinalSegment(subs[n].old_path)) = {}
          /\ Contains(out, PlaceholderLink(<<>>, subs[n].old_path))

\* the stretches i..j of t that read ![alt](target) with a target that does
\* not begin with http:// or https://
NonRemoteRefs(t) ==
    {ij \in (1..Len(t)) \X (1..Len(t)) :
        /\ ij[1] + 4 <= ij[2]
        /\ t[ij[1]] = "!"
        /\ t[ij[1] + 1] = "["
        /\ t[ij[2]] = ")"
        /\ \E k \in (ij[1] + 2)..(ij[2] - 2) :
              /\ t[k] = "]"
              /\ t[k + 1] = "("
              /\ \A a \in (ij[1] + 2)..(k - 1) : t[a] \notin {"[", "]", "\n"}
              /\ \A u \in (k + 2)..(ij[2] - 1) : t[u] \notin {"(", ")", " ", "\n"}
              /\ SchemeLen(t, k + 2) = 0}

\* C3: every image reference whose target is not http(s) appears unchanged
\* in the output, whatever precedes or follows it.
C3_NonRemoteReferencesUntouched ==
    Rewritten =>
        \A ij \in NonRemoteRefs(markdown_content) :
            Contains(out, SubSeq(markdown_content, ij[1], ij[2]))

\* a remote image reference begins at position i of t: '![', then ']('
\* followed by http:// or https://, then ')', all on one line
RefAt(t, i) ==
    /\ i + 1 <= Len(t)
    /\ t[i] = "!"
    /\ t[i + 1] = "["
    /\ \E k \in (i + 2)..Len(t) : \E e \in (k + 1)..Len(t) :
          /\ t[e] = ")"
          /\ \/ StartsAt(t, k, <<"]", "(">> \o Http) /\ e >= k + 2 + Len(Http)
             \/ StartsAt(t, k, <<"]", "(">> \o Https) /\ e >= k + 2 + Len(Https)
          /\ \A a \in (i + 2)..e : t[a] # "\n"

\* the first ')' that can close the reference beginning at i
RefEnd(t, i) ==
    Min({e \in (i + 1)..Len(t) :
            /\ t[e] = ")"
            /\ \E k \in (i + 2)..e :
                  \/ StartsAt(t, k, <<"]", "(">> \o Http) /\ e >= k + 2 + Len(Http)
                  \/ StartsAt(t, k, <<"]", "(">> \o Https) /\ e >= k + 2 + Len(Https)
            /\ \A a \in (i + 2)..e : t[a] # "\n"})

\* the references of the input taken from left to right: those that do not
\* begin inside a reference taken before them
RefsLeftToRight ==
    {i \in 1..Len(markdown_content) :
        /\ RefAt(markdown_content, i)
        /\ ~ \E n \in 1..Len(subs) : subs[n].start < i /\ i <= subs[n].end}

\* C4: one substitution per remote reference, from left to right; the
\* local embeds and placeholder links together are as many as the
\* references, none is skipped and none is substituted twice.
C4_OneSubstitutionPerReference ==
    Rewritten =>
        /\ \A n \in 1..Len(subs) :
              /\ RefAt(markdown_content, subs[n].start)
              /\ subs[n].end = RefEnd(markdown_content, subs[n].start)
              /\ StartsAt(out, OutPos(n), subs[n].repl)
              /\ StartsAt(subs[n].repl, 1, <<"!", "[">> \o subs[n].alt_text \o <<"]", "(">>)
                    # (subs[n].repl = PlaceholderLink(subs[n].alt_text, subs[n].old_path))
        /\ \A n \in 1..(Len(subs) - 1) : subs[n].end < subs[n + 1].start
        /\ \A i \in 1..Len(markdown_content) :
              RefAt(markdown_content, i) =>
                  \E n \in 1..Len(subs) : subs[n].start <= i /\ i <= subs[n].end
        /\ Len(subs) = Cardinality(RefsLeftToRight)
        /\ Len(out) = Len(markdown_content) + Shift(subs, Len(subs))

\* C4 witness: a text with several references on one line, some embedded
\* from the directory and some turned into placeholder links
C4_Witness ==
    /\ rpc = "rewritten"
    /\ Len(subs) >= 3
    /\ \A a \in 1..Len(markdown_content) : markdown_content[a] # "\n"
    /\ \E n, m \in 1..Len(subs) : subs[n].local /\ ~ subs[m].local

\* C10: the output holds no remote image reference, and rewriting the
\* output again changes nothing.
C10_OutputHasNoRemoteReference ==
    /\ Rewritten => \A i \in 1..Len(out) : ~ RefAt(out, i)
    /\ rpc = "again" => out2 = out

----------------------------------------------------------------------------
\* process_markdown_files

MdSuffix == <<".", "m", "d">>

\* names an entry of the input directory can have, in listing order
NameList == << <<"a", ".", "m", "d">>, <<"b", ".", "M", "D">>, <<".", "m", "d">>, <<"c", ".", "t", "x", "t">> >>

\* what happens to a file on its way through _process_single_markdown_file:
\*   read_fails      read_text raises (UnicodeDecodeError)
\*   stage_fails     temp_file.write raises (OSError)
\*   locked          output_file.rename raises PermissionError
\*   pandoc_error    subprocess.run raises CalledProcessError
\*   pandoc_missing  subprocess.run raises FileNotFoundError
Fates == {"ok", "read_fails", "stage_fails", "locked", "pandoc_error", "pandoc_missing"}

InputDir == <<"/", "i", "n">>

\* the content of every Markdown file of the model
FileContent == RemoteX \o <<"\n">> \o LocalRef

RECURSIVE SortedSeq(_)
SortedSeq(S) == IF S = {} THEN <<>> ELSE <<Min(S)>> \o SortedSeq(S \ {Min(S)})

\* the directories of the model: up to MaxFiles of the names, each with a fate
DirEnvs ==
    UNION {LET order == SortedSeq(S) IN
           {[n \in 1..Len(order) |-> [name |-> NameList[order[n]], fate |-> fs[n]]] :
                fs \in [1..Len(order) -> Fates]} :
           S \in {T \in SUBSET (1..Len(NameList)) : Cardinality(T) <= MaxFiles}}

FileEnvs == {<<[name |-> NameList[i], fate |-> f]>> : i \in 1..Len(NameList), f \in Fates}

BInit == /\ case_sensitive \in BOOLEAN
         /\ input_kind \in {"file", "dir", "neither"}
         /\ env \in (CASE input_kind = "file" -> FileEnvs
                       [] input_kind = "dir" -> DirEnvs
                       [] OTHER -> {<<>>})
         /\ input_name = IF input_kind = "file" THEN env[1].name ELSE <<"i", "n">>
         /\ markdown_files = <<>>
         /\ idx = 0
         /\ bpc = "start"
         /\ exc = "none"
         /\ started = {}
         /\ handed = {}
         /\ temp_md = {}
         /\ temp_dir = {}
         /\ staged = [n \in 1..Len(env) |-> <<>>]
         /\ docx = {}
         /\ reports = <<>>
         /\ returned = {}
         /\ escaped = FALSE
         /\ RIdle
         /\ AIdle

EndsWith(s, p) == Len(p) <= Len(s) /\ SubSeq(s, Len(s) - Len(p) + 1, Len(s)) = p

\* list(input_path.glob('*.md')): the entries whose name ends in ".md",
\* compared as the platform compares file names
glob_md(entries, cs) ==
    SortedSeq({n \in 1..Len(entries) :
                  EndsWith(IF cs THEN entries[n].name ELSE lower(entries[n].name), MdSuffix)})

\* the entry the per-file code is working on
cur == IF input_kind = "file" THEN 1 ELSE markdown_files[idx]

Report(n, kind) == [file |-> n, kind |-> kind]

\* lines 108-117 and 123-124: the branch on the kind of input_path
Dispatch ==
    /\ bpc = "start"
    /\ CASE input_kind = "file" ->
              IF lower(PathSuffix(input_name)) = MdSuffix
              THEN /\ started' = {1}
                   /\ bpc' = "read"
                   /\ UNCHANGED <<markdown_files, idx, reports>>
              ELSE /\ reports' = Append(reports, Report(0, "not_markdown"))
                   /\ bpc' = "done"
                   /\ UNCHANGED <<markdown_files, idx, started>>
         [] input_kind = "dir" ->
              /\ markdown_files' = glob_md(env, case_sensitive)
              /\ IF markdown_files' = <<>>
                 THEN /\ reports' = Append(reports, Report(0, "no_files"))
                      /\ bpc' = "done"
                      /\ UNCHANGED idx
                 ELSE /\ idx' = 1
                      /\ bpc' = "loop"
                      /\ UNCHANGED reports
              /\ UNCHANGED started
         [] OTHER ->
              /\ reports' = Append(reports, Report(0, "neither"))
              /\ bpc' = "done"
              /\ UNCHANGED <<markdown_files, idx, started>>
    /\ UNCHANGED <<input_kind, input_name, case_sensitive, env, exc, handed, temp_md,
                   temp_dir, staged, docx, returned, escaped, rvars, avars>>

\* line 118: the for loop takes the next file, or ends
LoopNext ==
    /\ bpc = "loop"
    /\ IF idx > Len(markdown_files)
       THEN bpc' = "done" /\ UNCHANGED started
       ELSE bpc' = "read" /\ started' = started \cup {markdown_files[idx]}
    /\ UNCHANGED <<input_kind, input_name, case_sensitive, env, markdown_files, idx, exc,
                   handed, temp_md, temp_dir, staged, docx, reports, returned, escaped,
                   rvars, avars>>

\* line 82: markdown_file.read_text
ReadText ==
    /\ bpc = "read"
    /\ IF env[cur].fate = "read_fails"
       THEN exc' = "UnicodeDecodeError" /\ bpc' = "raise"
       ELSE exc' = exc /\ bpc' = "stage"
    /\ UNCHANGED <<input_kind, input_name, case_sensitive, env, markdown_files, idx,
                   started, handed, temp_md, temp_dir, staged, docx, reports, returned,
                   escaped, rvars, avars>>

\* lines 83-87: rewrite the content, create the temporary file (delete=False)
\* and write the rewritten content to it
Stage ==
    /\ bpc = "stage"
    /\ temp_md' = temp_md \cup {cur}
    /\ IF env[cur].fate = "stage_fails"
       THEN /\ exc' = "OSError"
            /\ bpc' = "raise"
            /\ UNCHANGED staged
       ELSE /\ staged' = [staged EXCEPT ![cur] =
                            correct_image_paths(FileContent,
                                                [n \in 1..Len(env) |-> env[n].name],
                                                InputDir)]
            /\ bpc' = "check"
            /\ UNCHANGED exc
    /\ UNCHANGED <<input_kind, input_name, case_sensitive, env, markdown_files, idx,
                   started, handed, temp_dir, docx, reports, returned, escaped,
                   rvars, avars>>

\* lines 90-91 and 19-25: convert_markdown_to_word is called, checks that the
\* output file is not open elsewhere and creates the temporary media directory
CheckLock ==
    /\ bpc = "check"
    /\ handed' = handed \cup {cur}
    /\ IF env[cur].fate = "locked"
       THEN /\ exc' = "PermissionError"
            /\ bpc' = "except"
            /\ UNCHANGED temp_dir
       ELSE /\ temp_dir' = temp_dir \cup {cur}
            /\ bpc' = "pandoc"
            /\ UNCHANGED exc
    /\ UNCHANGED <<input_kind, input_name, case_sensitive, env, markdown_files, idx,
                   started, temp_md, staged, docx, reports, returned, escaped,
                   rvars, avars>>

\* lines 36-41: pandoc runs; leaving the with block removes the media directory
RunPandoc ==
    /\ bpc = "pandoc"
    /\ temp_dir' = temp_dir \ {cur}
    /\ CASE env[cur].fate = "pandoc_error" ->
              /\ reports' = Append(reports, Report(cur, "diagnostic"))
              /\ exc' = "CalledProcessError"
              /\ bpc' = "except"
              /\ UNCHANGED docx
         [] env[cur].fate = "pandoc_missing" ->
              /\ exc' = "FileNotFoundError"
              /\ bpc' = "except"
              /\ UNCHANGED <<docx, reports>>
         [] OTHER ->
              /\ docx' = docx \cup {cur}
              /\ bpc' = "converted"
              /\ UNCHANGED <<exc, reports>>
    /\ UNCHANGED <<input_kind, input_name, case_sensitive, env, markdown_files, idx,
                   started, handed, temp_md, staged, returned, escaped, rvars, avars>>

\* line 92: the success line
PrintConverted ==
    /\ bpc = "converted"
    /\ reports' = Append(reports, Report(cur, "success"))
    /\ bpc' = "finally"
    /\ UNCHANGED <<input_kind, input_name, case_sensitive, env, markdown_files, idx, exc,
                   started, handed, temp_md, temp_dir, staged, docx, returned, escaped,
                   rvars, avars>>

\* lines 93-96: the two except clauses of the per-file code
Except ==
    /\ bpc = "except"
    /\ IF exc \in {"PermissionError", "CalledProcessError"}
       THEN /\ reports' = Append(reports, Report(cur, "failure"))
            /\ exc' = "none"
       ELSE UNCHANGED <<reports, exc>>
    /\ bpc' = "finally"
    /\ UNCHANGED <<input_kind, input_name, case_sensitive, env, markdown_files, idx,
                   started, handed, temp_md, temp_dir, staged, docx, returned, escaped,
                   rvars, avars>>

\* lines 97-98: temp_md_file.unlink()
Finally ==
    /\ bpc = "finally"
    /\ temp_md' = temp_md \ {cur}
    /\ bpc' = IF exc = "none" THEN "return" ELSE "raise"
    /\ UNCHANGED <<input_kind, input_name, case_sensitive, env, markdown_files, idx, exc,
                   started, handed, temp_dir, staged, docx, reports, returned, escaped,
                   rvars, avars>>

\* line 110: single-file mode calls the per-file code unguarded
FileModeEnd ==
    /\ input_kind = "file"
    /\ bpc \in {"return", "raise"}
    /\ returned' = returned \cup {cur}
    /\ escaped' = (exc # "none")
    /\ bpc' = "done"
    /\ UNCHANGED <<input_kind, input_name, case_sensitive, env, markdown_files, idx, exc,
                   started, handed, temp_md, temp_dir, staged, docx, reports,
                   rvars, avars>>

\* line 120: the per-file code returned normally inside the loop
LoopBodyEnd ==
    /\ input_kind = "dir"
    /\ bpc = "return"
    /\ returned' = returned \cup {cur}
    /\ idx' = idx + 1
    /\ bpc' = "loop"
    /\ UNCHANGED <<input_kind, input_name, case_sensitive, env, markdown_files, exc,
                   started, handed, temp_md, temp_dir, staged, docx, reports, escaped,
                   rvars, avars>>

\* the loop without its handler: the exception ends the batch
LoopExcept_Propagates ==
    /\ input_kind = "dir"
    /\ bpc = "raise"
    /\ returned' = returned \cup {cur}
    /\ escaped' = TRUE
    /\ bpc' = "done"
    /\ UNCHANGED <<input_kind, input_name, case_sensitive, env, markdown_files, idx, exc,
                   started, handed, temp_md, temp_dir, staged, docx, reports,
                   rvars, avars>>

\* lines 121-122: the loop's 'except Exception' reports and goes on
LoopExcept ==
    /\ input_kind = "dir"
    /\ bpc = "raise"
    /\ returned' = returned \cup {cur}
    /\ reports' = Append(reports, Report(cur, "failure"))
    /\ exc' = "none"
    /\ idx' = idx + 1
    /\ bpc' = "loop"
    /\ UNCHANGED <<input_kind, input_name, case_sensitive, env, markdown_files,
                   started, handed, temp_md, temp_dir, staged, docx, escaped,
                   rvars, avars>>

BNext == \/ Dispatch
         \/ LoopNext
         \/ ReadText
         \/ Stage
         \/ CheckLock
         \/ RunPandoc
         \/ PrintConverted
         \/ Except
         \/ Finally
         \/ FileModeEnd
         \/ LoopBodyEnd
         \/ LoopExcept

SpecBatch == BInit /\ [][BNext]_vars

----------------------------------------------------------------------------
\* Properties of process_markdown_files

\* the status lines that end the processing of entry n
TerminalReports(n) == {k \in 1..Len(reports) :
                          reports[k].file = n /\ reports[k].kind \in {"success", "failure"}}

\* C5: in directory mode a file that fails does not end the batch: every
\* file of the directory listing is processed, and every file that did not
\* fail before conversion is handed to the converter, wherever the failing
\* files are in the iteration.
C5_FailureIsolation ==
    (input_kind = "dir" /\ bpc = "done") =>
        \A k \in 1..Len(markdown_files) :
            LET n == markdown_files[k] IN
            /\ n \in started
            /\ n \in returned
            /\ env[n].fate \notin {"read_fails", "stage_fails"} => n \in handed
            /\ env[n].fate = "ok" =>
                  /\ n \in docx
                  /\ staged[n] = correct_image_paths(FileContent,
                                                     [m \in 1..Len(env) |-> env[m].name],
                                                     InputDir)

\* C5 witness: a finished batch in which a file was converted after one file
\* had failed with an exception the per-file code does not catch and another
\* had failed in the converter
C5_Witness ==
    /\ input_kind = "dir"
    /\ bpc = "done"
    /\ \E a, b, c \in 1..Len(markdown_files) :
          /\ a < b /\ b < c
          /\ env[markdown_files[a]].fate \in {"read_fails", "pandoc_missing"}
          /\ env[markdown_files[b]].fate \in {"locked", "pandoc_error"}
          /\ env[markdown_files[c]].fate = "ok"
          /\ markdown_files[c] \in docx

\* C6: in both modes no exception leaves process_markdown_files, and every
\* file handed to the per-file code ends with exactly one terminal report.
C6_OneReportAndNoEscape ==
    bpc = "done" =>
        /\ ~ escaped
        /\ \A n \in started : Cardinality(TerminalReports(n)) = 1

\* C7: directory mode processes exactly the entries single-file mode would
\* accept, those whose extension is .md in any letter case.
C7_ExtensionCaseInsensitive ==
    (input_kind = "dir" /\ bpc \notin {"idle", "start"}) =>
        {markdown_files[k] : k \in 1..Len(markdown_files)} =
            {n \in 1..Len(env) : lower(PathSuffix(env[n].name)) = MdSuffix}

\* C8: once the per-file code has returned or raised for a file, neither its
\* temporary Markdown file nor its temporary media directory exists.
C8_TempResourcesRemoved ==
    \A n \in returned : n \notin temp_md /\ n \notin temp_dir

----------------------------------------------------------------------------
\* parse_arguments

DefaultInput == "x-INPUT"
DefaultOutput == "x-OUTPUT"

\* values a positional argument can have
ArgValues == {"x-INPUT", "x-OUTPUT", "x-input", "x-output", "in", "out",
              "notes.md", "docs", "a", "b"}

\* the parser declares two positional arguments
NumPositionals == 2

AInit == /\ argv \in UNION {[1..n -> ArgValues] : n \in 0..NumPositionals}
         /\ args = [input |-> "", output |-> ""]
         /\ usage_error = FALSE
         /\ apc = "start"
         /\ RIdle
         /\ BIdle

\* lines 141-153: nargs="?" with a default: a missing argument gets its default
ParseArgs ==
    /\ apc = "start"
    /\ args' = [input |-> IF Len(argv) >= 1 THEN argv[1] ELSE DefaultInput,
                output |-> IF Len(argv) >= 2 THEN argv[2] ELSE DefaultOutput]
    /\ apc' = "parsed"
    /\ UNCHANGED <<argv, usage_error, rvars, bvars>>

\* lines 155-159: the both-or-neither check
CheckBothOrNeither ==
    /\ apc = "parsed"
    /\ usage_error' = ((args.input = DefaultInput) # (args.output = DefaultOutput))
    /\ apc' = "done"
    /\ UNCHANGED <<argv, args, rvars, bvars>>

ANext == ParseArgs \/ CheckBothOrNeither

SpecArgs == AInit /\ [][ANext]_vars

\* C9: a usage error is reported if and only if exactly one of the two
\* positional arguments is given, whatever the values given.
C9_UsageErrorIffExactlyOneGiven ==
    apc = "done" => (usage_error <=> Len(argv) = 1)

====
